---- MODULE Spec2Model ----
(***************************************************************************)
(* A model of HRreport.py: the column type classifier detect_column_type,   *)
(* the aggregation engine analyze_excel_data and the upload_excel route.   *)
(*                                                                         *)
(* A pandas cell is a record [kind, num, text]:                            *)
(*   kind = "nan"    a missing cell (NaN / None)                           *)
(*   kind = "int"    an integer-valued number, num its value               *)
(*   kind = "float"  a number that is not integer-valued, num its value    *)
(*                   in halves (3 stands for 1.5)                          *)
(*   kind = "str"    a text cell, text its characters                      *)
(* A pandas Series is a record [dtype, cells]; dtype is the dtype pandas   *)
(* gave the column ("int64", "float64" or "object").                       *)
(***************************************************************************)
EXTENDS Integers, Sequences, FiniteSets, TLC

VARIABLES series, column_name, col_type, dataframes, analysis, pc,
          uploaded_files, report_data, requests, reports

\* the globals of lines 68-69, the upload_excel requests in progress and the
\* answers of generate_reports
server == <<uploaded_files, report_data, requests, reports>>

vars == <<series, column_name, col_type, dataframes, analysis, pc, server>>

----------------------------------------------------------------------------
(* Bounds of the model *)

\* rows of an exhaustively enumerated column
MaxRows == 3
\* distinct values of a generated long column
MaxDistinct == 21
\* repeated values appended to a generated long column
MaxDup == 21

----------------------------------------------------------------------------
(* Cells *)

NaN == [kind |-> "nan", num |-> 0, text |-> ""]
IntCell(n) == [kind |-> "int", num |-> n, text |-> ""]
FloatCell(h) == [kind |-> "float", num |-> h, text |-> ""]
StrCell(s) == [kind |-> "str", num |-> 0, text |-> s]

\* pd.isna / pd.notna of one cell
notna(c) == c.kind # "nan"

\* the texts that pandas' date parser accepts
DateTexts == {"2020-01-01", "2021-06-30"}

Min(a, b) == IF a < b THEN a ELSE b

\* Series.dropna(): the non-missing cells, in order, the dtype kept
dropna(s) == [dtype |-> s.dtype, cells |-> SelectSeq(s.cells, notna)]

\* Series.head(n)
head(s, n) == [dtype |-> s.dtype, cells |-> SubSeq(s.cells, 1, Min(n, Len(s.cells)))]

\* len(Series.unique()): the number of distinct cells
nunique_cells(cells) == Cardinality({cells[i] : i \in DOMAIN cells})

\* pd.to_datetime(series, errors='raise') does not raise: every cell converts
\* (a number is read as an epoch offset, a text must be a date text)
to_datetime_ok(s) ==
    \A i \in DOMAIN s.cells :
        \/ s.cells[i].kind \in {"int", "float"}
        \/ s.cells[i].kind = "str" /\ s.cells[i].text \in DateTexts

\* pd.api.types.is_numeric_dtype / is_integer_dtype
is_numeric_dtype(s) == s.dtype \in {"int64", "float64"}
is_integer_dtype(s) == s.dtype = "int64"

----------------------------------------------------------------------------
(* Column names: str(name).lower().strip() and `keyword in name` as tables *)

Names == {"Department", "Salary", "Salary ", "emp_id", " EMP_ID ", "Zip Code",
          "hire_date", "Start", "Vendor ID", "Weekend Number"}

\* a faulty variant: the name is kept as it is written
strip_name_kept(n) == n

\* str(column_name).strip()
strip_name(n) ==
    CASE n = " EMP_ID " -> "EMP_ID"
      [] n = "Salary " -> "Salary"
      [] OTHER -> n

\* str(column_name).lower().strip()
lower_strip(n) ==
    CASE n = "Department" -> "department"
      [] n = "Salary" -> "salary"
      [] n = "Salary " -> "salary"
      [] n = "emp_id" -> "emp_id"
      [] n = " EMP_ID " -> "emp_id"
      [] n = "Zip Code" -> "zip code"
      [] n = "hire_date" -> "hire_date"
      [] n = "Start" -> "start"
      [] n = "Vendor ID" -> "vendor id"
      [] n = "Weekend Number" -> "weekend number"
      [] OTHER -> n

DateKeywords == {"date", "time", "created", "updated", "birth", "hire", "start", "end"}
IdKeywords == {"id", "code", "number"}

\* the keywords of either list that occur as substrings of a lower-cased name
substrings(l) ==
    CASE l = "emp_id" -> {"id"}
      [] l = "zip code" -> {"code"}
      [] l = "hire_date" -> {"hire", "date"}
      [] l = "start" -> {"start"}
      [] l = "vendor id" -> {"end", "id"}
      [] l = "weekend number" -> {"end", "number"}
      [] OTHER -> {}

has_date_keyword(n) == substrings(lower_strip(n)) \cap DateKeywords # {}
has_id_keyword(n) == substrings(lower_strip(n)) \cap IdKeywords # {}

----------------------------------------------------------------------------
(* detect_column_type *)

\* the first 10 non-missing values are tried as dates
DateHead == 10
\* at most this many distinct values make a non-numeric column categorical
CategoricalMaxUnique == 20

\* a faulty variant: the whole column is parsed, not its first 10 values
date_step_whole_column(clean_series, column_name_) ==
    /\ has_date_keyword(column_name_)
    /\ to_datetime_ok(clean_series)

\* lines 92-97: the name hint and the parse of the first values
date_step(clean_series, column_name_) ==
    /\ has_date_keyword(column_name_)
    /\ to_datetime_ok(head(clean_series, DateHead))

\* lines 102-105: unique_ratio > 0.8 and an identifier keyword in the name
identifier_step(clean_series, column_name_) ==
    /\ is_integer_dtype(clean_series)
    /\ 5 * nunique_cells(clean_series.cells) > 4 * Len(clean_series.cells)
    /\ has_id_keyword(column_name_)

\* a faulty variant: the count leg excludes 20
categorical_step_below_20(clean_series) ==
    \/ nunique_cells(clean_series.cells) < CategoricalMaxUnique
    \/ 2 * nunique_cells(clean_series.cells) < Len(clean_series.cells)

\* a faulty variant: the ratio leg includes 0.5
categorical_step_half_included(clean_series) ==
    \/ nunique_cells(clean_series.cells) <= CategoricalMaxUnique
    \/ 2 * nunique_cells(clean_series.cells) <= Len(clean_series.cells)

\* line 112: unique_values <= 20 or unique_values / total_values < 0.5
categorical_step(clean_series) ==
    \/ nunique_cells(clean_series.cells) <= CategoricalMaxUnique
    \/ 2 * nunique_cells(clean_series.cells) < Len(clean_series.cells)

\* a faulty variant: the name hint is tried before the column is found empty
detect_column_type_date_first(s, column_name_) ==
    LET clean_series == dropna(s) IN
    IF date_step(clean_series, column_name_) THEN "date"
    ELSE IF Len(clean_series.cells) = 0 THEN "empty"
    ELSE IF is_numeric_dtype(clean_series) THEN
        IF identifier_step(clean_series, column_name_) THEN "identifier" ELSE "numeric"
    ELSE IF categorical_step(clean_series) THEN "categorical"
    ELSE "text"

\* lines 82-115
detect_column_type(s, column_name_) ==
    LET clean_series == dropna(s) IN
    IF Len(clean_series.cells) = 0 THEN "empty"
    ELSE IF date_step(clean_series, column_name_) THEN "date"
    ELSE IF is_numeric_dtype(clean_series) THEN
        IF identifier_step(clean_series, column_name_) THEN "identifier" ELSE "numeric"
    ELSE IF categorical_step(clean_series) THEN "categorical"
    ELSE "text"

----------------------------------------------------------------------------
(* The columns the classifier is run on *)

\* the cells of the exhaustively enumerated columns
SmallValues == {NaN, IntCell(1), IntCell(2), FloatCell(3),
                StrCell("Eng"), StrCell("HR"), StrCell("2020-01-01")}

SmallCells == UNION {[1..n -> SmallValues] : n \in 0..MaxRows}

\* the i-th value of a generated column of one kind
GenValue(kind, i) ==
    CASE kind = "int" -> IntCell(i)
      [] kind = "str" -> StrCell("v" \o ToString(i))
      [] OTHER -> StrCell(IF i % 2 = 1 THEN "2020-01-01" ELSE "2021-06-30")

\* a generated column: an optional leading missing cell, k values, d repeats of
\* the first one, an optional trailing text cell
GenCells(kind, lead, k, d, tail) ==
    (IF lead THEN <<NaN>> ELSE <<>>)
      \o [i \in 1..k |-> GenValue(kind, i)]
      \o [i \in 1..d |-> GenValue(kind, 1)]
      \o (IF tail THEN <<StrCell("Eng")>> ELSE <<>>)

LongCells ==
    {GenCells(kind, lead, k, d, tail) :
        kind \in {"int", "str", "date"}, lead \in BOOLEAN,
        k \in 1..MaxDistinct, d \in 0..MaxDup, tail \in BOOLEAN}

\* the dtypes pandas can hold the cells in: text makes the column object, a
\* missing or fractional cell makes it float64, and a column of integers is
\* int64 unless rows with a missing cell were dropped after it was read
DtypesOf(cells) ==
    IF \E i \in DOMAIN cells : cells[i].kind = "str" THEN {"object"}
    ELSE IF \E i \in DOMAIN cells : cells[i].kind \in {"nan", "float"} THEN {"float64"}
    ELSE {"int64", "float64"}

NoSeries == [dtype |-> "object", cells |-> <<>>]
NoAnalysis == [kind |-> "none"]

\* lines 68-69: no upload yet, and no request
ServerIdle ==
    /\ uploaded_files = <<>>
    /\ report_data = NoAnalysis
    /\ requests = <<>>
    /\ reports = <<>>

\* a column is drawn among the exhaustively enumerated and the generated ones
InitClassify ==
    /\ \E cells \in SmallCells \cup LongCells :
          \E t \in DtypesOf(cells) : series = [dtype |-> t, cells |-> cells]
    /\ column_name \in Names
    /\ col_type = "pending"
    /\ dataframes = <<>>
    /\ analysis = NoAnalysis
    /\ pc = "classify"
    /\ ServerIdle

\* a call of detect_column_type(series, column_name)
Classify ==
    /\ pc = "classify"
    /\ col_type = "pending"
    /\ col_type' = detect_column_type(series, column_name)
    /\ pc' = "classified"
    /\ UNCHANGED <<series, column_name, dataframes, analysis, server>>

NextClassify == Classify

SpecClassify == InitClassify /\ [][NextClassify]_vars

----------------------------------------------------------------------------
(* Python dicts: a sequence of [k, v] entries in insertion order *)

DictHas(d, key) == \E i \in DOMAIN d : d[i].k = key
DictIndex(d, key) == CHOOSE i \in DOMAIN d : d[i].k = key
\* d.get(key, default)
DictGet(d, key, default) == IF DictHas(d, key) THEN d[DictIndex(d, key)].v ELSE default
\* d[key] = value: an existing key keeps its place, a new one goes last
DictSet(d, key, value) ==
    IF DictHas(d, key) THEN [d EXCEPT ![DictIndex(d, key)].v = value]
    ELSE Append(d, [k |-> key, v |-> value])

RECURSIVE SumSeq(_)
SumSeq(q) == IF q = <<>> THEN 0 ELSE q[1] + SumSeq(Tail(q))

RECURSIVE Flatten(_)
Flatten(qq) == IF qq = <<>> THEN <<>> ELSE qq[1] \o Flatten(Tail(qq))

----------------------------------------------------------------------------
(* pandas operations of analyze_excel_data *)

\* the texts pd.to_numeric reads as numbers, with their values
NumericTexts == {"1", "2"}
NumericTextValue(t) == IF t = "1" THEN 1 ELSE 2

\* pd.to_numeric(series, errors='coerce'): a text that is no number becomes missing
to_numeric_coerce(s) ==
    [dtype |-> "float64",
     cells |-> [i \in DOMAIN s.cells |->
                  IF s.cells[i].kind # "str" THEN s.cells[i]
                  ELSE IF s.cells[i].text \in NumericTexts
                       THEN IntCell(NumericTextValue(s.cells[i].text))
                       ELSE NaN]]

\* pd.to_datetime(series, errors='coerce'): what does not parse becomes missing
to_datetime_coerce(s) ==
    [dtype |-> "datetime64",
     cells |-> [i \in DOMAIN s.cells |->
                  IF \/ s.cells[i].kind \in {"int", "float"}
                     \/ s.cells[i].kind = "str" /\ s.cells[i].text \in DateTexts
                  THEN s.cells[i] ELSE NaN]]

\* the value of a numeric cell in halves (1.5 is 3, 2 is 4)
Halves(c) == IF c.kind = "float" THEN c.num ELSE 2 * c.num

\* str(value).strip() of a non-missing cell
str_strip(c) ==
    CASE c.kind = "int" -> ToString(c.num)
      [] c.kind = "float" -> ToString(c.num \div 2) \o ".5"
      [] c.text = " Eng" -> "Eng"
      [] c.text = "Eng " -> "Eng"
      [] OTHER -> c.text

\* the distinct non-missing cells in order of first appearance
RECURSIVE FirstSeen(_, _)
FirstSeen(cells, seen) ==
    IF cells = <<>> THEN seen
    ELSE IF notna(cells[1]) /\ ~(\E i \in DOMAIN seen : seen[i] = cells[1])
         THEN FirstSeen(Tail(cells), Append(seen, cells[1]))
         ELSE FirstSeen(Tail(cells), seen)

CountOf(cells, c) == Cardinality({i \in DOMAIN cells : cells[i] = c})

\* insert an entry into a sequence ordered by count, largest first, after the
\* entries of the same count
RECURSIVE InsertByCount(_, _)
InsertByCount(sorted, e) ==
    IF sorted = <<>> THEN <<e>>
    ELSE IF sorted[1].v >= e.v THEN <<sorted[1]>> \o InsertByCount(Tail(sorted), e)
    ELSE <<e>> \o sorted

RECURSIVE SortByCount(_)
SortByCount(entries) ==
    IF entries = <<>> THEN <<>>
    ELSE InsertByCount(SortByCount(SubSeq(entries, 1, Len(entries) - 1)),
                       entries[Len(entries)])

\* Series.value_counts(): each distinct non-missing value with its number of
\* occurrences, the most frequent first
value_counts(s) ==
    LET seen == FirstSeen(s.cells, <<>>) IN
    SortByCount([i \in DOMAIN seen |-> [k |-> seen[i], v |-> CountOf(s.cells, seen[i])]])

\* Series.nunique(): the number of distinct non-missing values
nunique(s) == nunique_cells(dropna(s).cells)

\* Series.isnull().sum()
isnull_sum(s) == Cardinality({i \in DOMAIN s.cells : ~notna(s.cells[i])})

\* a sequence of integers in ascending order
RECURSIVE InsertAsc(_, _)
InsertAsc(sorted, x) ==
    IF sorted = <<>> THEN <<x>>
    ELSE IF sorted[1] <= x THEN <<sorted[1]>> \o InsertAsc(Tail(sorted), x)
    ELSE <<x>> \o sorted

RECURSIVE SortAsc(_)
SortAsc(q) == IF q = <<>> THEN <<>> ELSE InsertAsc(SortAsc(Tail(q)), q[1])

\* lines 186-193: the statistics of the coerced values of one instance; a
\* fraction is [num, den], and std is the pandas one (divisor n - 1, not a
\* number for a single value), kept as its square
numeric_stats_of(numeric_data) ==
    LET h == [i \in DOMAIN numeric_data.cells |-> Halves(numeric_data.cells[i])]
        n == Len(h)
        sorted == SortAsc(h)
        sq == SumSeq([i \in DOMAIN h |-> h[i] * h[i]])
    IN [mean |-> [num |-> SumSeq(h), den |-> 2 * n],
        median |-> IF n % 2 = 1 THEN [num |-> sorted[(n + 1) \div 2], den |-> 2]
                   ELSE [num |-> sorted[n \div 2] + sorted[n \div 2 + 1], den |-> 4],
        std |-> [nan |-> n = 1, ddof |-> 1,
                 sq_num |-> n * sq - SumSeq(h) * SumSeq(h),
                 sq_den |-> 4 * n * (n - 1)],
        min |-> sorted[1],
        max |-> sorted[n],
        count |-> n]

----------------------------------------------------------------------------
(* analyze_excel_data *)

\* a faulty variant: the pooled list is replaced by the values of the last instance
pool_numeric_overwrite(numeric, col_clean, values) ==
    DictSet(numeric, col_clean, values)

\* lines 182-183: the coerced values are appended to the key's pooled list
pool_numeric(numeric, col_clean, values) ==
    DictSet(numeric, col_clean, DictGet(numeric, col_clean, <<>>) \o values)

\* a faulty variant: the count replaces what the category has so far
merge_category_overwrite(categories, key, count) ==
    DictSet(categories, key, count)

\* lines 203-204: the count is added to what the category has so far
merge_category(categories, key, count) ==
    DictSet(categories, key, DictGet(categories, key, 0) + count)

\* a faulty variant: a value whose trimmed text is a category already is left out
RECURSIVE merge_value_counts_new_only(_, _)
merge_value_counts_new_only(categories, counts) ==
    IF counts = <<>> THEN categories
    ELSE merge_value_counts_new_only(
            IF notna(counts[1].k) /\ ~DictHas(categories, str_strip(counts[1].k))
            THEN merge_category(categories, str_strip(counts[1].k), counts[1].v)
            ELSE categories,
            Tail(counts))

\* lines 200-204: the loop over value_counts().items()
RECURSIVE merge_value_counts(_, _)
merge_value_counts(categories, counts) ==
    IF counts = <<>> THEN categories
    ELSE merge_value_counts(
            IF notna(counts[1].k)
            THEN merge_category(categories, str_strip(counts[1].k), counts[1].v)
            ELSE categories,
            Tail(counts))

\* lines 210-211: the parsed dates are appended to the key's pooled list
pool_dates(dates, col_clean, values) ==
    DictSet(dates, col_clean, DictGet(dates, col_clean, <<>>) \o values)

\* a faulty variant: the percentage is taken over the non-missing cells
data_quality_of_non_missing(s, n) ==
    [null_count |-> isnull_sum(s),
     null_percentage |-> [num |-> isnull_sum(s) * 100, den |-> n - isnull_sum(s)],
     unique_count |-> nunique(s)]

\* lines 216-221: the Data Quality Record of one column of a sheet of n rows
data_quality_of(s, n) ==
    [null_count |-> isnull_sum(s),
     null_percentage |-> [num |-> isnull_sum(s) * 100, den |-> n],
     unique_count |-> nunique(s)]

\* a faulty variant: a text instance is counted like a categorical one
analyze_column_text_counted(st, filename, sheet_name, df, col) ==
    LET col_clean == strip_name(col.name)
        s == [dtype |-> col.dtype, cells |-> col.cells]
        col_type_ == detect_column_type(s, col.name)
        known == IF DictHas(st.all_columns, col_clean) THEN st.all_columns
                 ELSE DictSet(st.all_columns, col_clean,
                              [type |-> col_type_, files |-> <<>>, data |-> <<>>])
        entry == DictGet(known, col_clean, <<>>)
        st1 == [st EXCEPT !.all_columns =
                   DictSet(known, col_clean,
                           [entry EXCEPT !.files =
                               Append(@, filename \o ":" \o sheet_name)])]
        numeric_data == dropna(to_numeric_coerce(s))
        date_data == dropna(to_datetime_coerce(s))
        st2 ==
          CASE col_type_ = "numeric" /\ Len(numeric_data.cells) > 0 ->
                 [st1 EXCEPT
                    !.numeric = pool_numeric(@, col_clean, numeric_data.cells),
                    !.file_analysis.numeric_stats =
                         DictSet(@, col_clean, numeric_stats_of(numeric_data))]
            [] col_type_ \in {"categorical", "text"} ->
                 [st1 EXCEPT
                    !.categorical =
                       DictSet(@, col_clean,
                               merge_value_counts(DictGet(@, col_clean, <<>>),
                                                  value_counts(s)))]
            [] col_type_ = "date" /\ Len(date_data.cells) > 0 ->
                 [st1 EXCEPT !.dates = pool_dates(@, col_clean, date_data.cells)]
            [] OTHER -> st1
    IN [st2 EXCEPT !.file_analysis.data_quality =
            DictSet(@, col_clean, data_quality_of(s, df.rows))]

\* lines 165-221: the body of `for col in df.columns`
analyze_column(st, filename, sheet_name, df, col) ==
    LET col_clean == strip_name(col.name)
        s == [dtype |-> col.dtype, cells |-> col.cells]
        col_type_ == detect_column_type(s, col.name)
        known == IF DictHas(st.all_columns, col_clean) THEN st.all_columns
                 ELSE DictSet(st.all_columns, col_clean,
                              [type |-> col_type_, files |-> <<>>, data |-> <<>>])
        entry == DictGet(known, col_clean, <<>>)
        st1 == [st EXCEPT !.all_columns =
                   DictSet(known, col_clean,
                           [entry EXCEPT !.files =
                               Append(@, filename \o ":" \o sheet_name)])]
        numeric_data == dropna(to_numeric_coerce(s))
        date_data == dropna(to_datetime_coerce(s))
        st2 ==
          CASE col_type_ = "numeric" /\ Len(numeric_data.cells) > 0 ->
                 [st1 EXCEPT
                    !.numeric = pool_numeric(@, col_clean, numeric_data.cells),
                    !.file_analysis.numeric_stats =
                         DictSet(@, col_clean, numeric_stats_of(numeric_data))]
            [] col_type_ = "categorical" ->
                 [st1 EXCEPT
                    !.categorical =
                       DictSet(@, col_clean,
                               merge_value_counts(DictGet(@, col_clean, <<>>),
                                                  value_counts(s)))]
            [] col_type_ = "date" /\ Len(date_data.cells) > 0 ->
                 [st1 EXCEPT !.dates = pool_dates(@, col_clean, date_data.cells)]
            [] OTHER -> st1
    IN [st2 EXCEPT !.file_analysis.data_quality =
            DictSet(@, col_clean, data_quality_of(s, df.rows))]

RECURSIVE analyze_columns(_, _, _, _, _)
analyze_columns(st, filename, sheet_name, df, i) ==
    IF i > Len(df.columns) THEN st
    ELSE analyze_columns(analyze_column(st, filename, sheet_name, df, df.columns[i]),
                         filename, sheet_name, df, i + 1)

\* DataFrame.empty: no row or no column
df_empty(df) == df.rows = 0 \/ Len(df.columns) = 0

Max(a, b) == IF a > b THEN a ELSE b

\* lines 150-221: the body of `for sheet_name, df in sheets.items()`
analyze_sheet(st, filename, sheet) ==
    IF df_empty(sheet.df) THEN st
    ELSE
      LET rows == sheet.df.rows
          cols == Len(sheet.df.columns)
          st1 == [st EXCEPT
                    !.total_rows = @ + rows,
                    !.file_summary.sheets =
                        DictSet(@, sheet.sheet_name,
                                [rows |-> rows, columns |-> cols,
                                 column_names |->
                                    [i \in DOMAIN sheet.df.columns |->
                                        sheet.df.columns[i].name]]),
                    !.file_summary.total_rows = @ + rows,
                    !.file_summary.total_columns = Max(@, cols)]
      IN analyze_columns(st1, filename, sheet.sheet_name, sheet.df, 1)

RECURSIVE analyze_sheets(_, _, _, _)
analyze_sheets(st, filename, sheets, i) ==
    IF i > Len(sheets) THEN st
    ELSE analyze_sheets(analyze_sheet(st, filename, sheets[i]), filename, sheets, i + 1)

\* lines 136-224: the body of `for filename, sheets in dataframes.items()`
analyze_file(st, file) ==
    LET st1 == [st EXCEPT
                  !.file_summary = [filename |-> file.filename, sheets |-> <<>>,
                                    total_rows |-> 0, total_columns |-> 0],
                  !.file_analysis = [numeric_stats |-> <<>>,
                                     categorical_counts |-> <<>>,
                                     data_quality |-> <<>>]]
        st2 == analyze_sheets(st1, file.filename, file.sheets, 1)
    IN [st2 EXCEPT
          !.detailed_analysis = DictSet(@, file.filename, st2.file_analysis),
          !.data_overview = Append(@, st2.file_summary)]

RECURSIVE analyze_files(_, _, _)
analyze_files(st, files, i) ==
    IF i > Len(files) THEN st
    ELSE analyze_files(analyze_file(st, files[i]), files, i + 1)

\* f"{percentage:.1f}" of count / total * 100, in tenths of a percent
percentage_tenths(count, total) ==
    LET q == (count * 1000) \div total
        r == (count * 1000) % total
    IN IF 2 * r > total THEN q + 1
       ELSE IF 2 * r = total THEN q + (q % 2)
       ELSE q

\* a faulty variant: the first key, whatever its count
top_category_first_key(categories) == categories[1].k

\* a faulty variant: among the keys holding the largest count the choice differs
\* from one run to the next
top_category_by_run(categories) ==
    LET best == CHOOSE i \in DOMAIN categories :
                    /\ \A j \in DOMAIN categories : categories[j].v <= categories[i].v
                    /\ IF pc = "done"
                       THEN \A j \in (i + 1)..Len(categories) :
                                categories[j].v < categories[i].v
                       ELSE \A j \in 1..(i - 1) : categories[j].v < categories[i].v
    IN categories[best].k

\* max(categories, key=categories.get): the first key holding the largest count
top_category_of(categories) ==
    LET best == CHOOSE i \in DOMAIN categories :
                    /\ \A j \in DOMAIN categories : categories[j].v <= categories[i].v
                    /\ \A j \in 1..(i - 1) : categories[j].v < categories[i].v
    IN categories[best].k

\* an insight line: its kind, the Column Key and category it names, its numbers
Insight(kind, col, top, nums) == [kind |-> kind, col |-> col, top |-> top, nums |-> nums]

\* a faulty variant: a key with a single pooled value gets a line too
RECURSIVE numeric_insights_single(_)
numeric_insights_single(numeric) ==
    IF numeric = <<>> THEN <<>>
    ELSE
      LET values == numeric[1].v
          h == [i \in DOMAIN values |-> Halves(values[i])]
          n == Len(h)
          sorted == SortAsc(h)
          sq == SumSeq([i \in DOMAIN h |-> h[i] * h[i]])
      IN (IF n > 0
          THEN <<Insight("numeric", numeric[1].k, "",
                         <<SumSeq(h), 2 * n,
                           n * sq - SumSeq(h) * SumSeq(h), 4 * n * n, 0,
                           sorted[1], sorted[n]>>)>>
          ELSE <<>>)
         \o numeric_insights_single(Tail(numeric))

\* lines 246-250: the lines of the numeric keys with at least 2 pooled values;
\* np.std divides by n, and the line keeps its square
RECURSIVE numeric_insights(_)
numeric_insights(numeric) ==
    IF numeric = <<>> THEN <<>>
    ELSE
      LET values == numeric[1].v
          h == [i \in DOMAIN values |-> Halves(values[i])]
          n == Len(h)
          sorted == SortAsc(h)
          sq == SumSeq([i \in DOMAIN h |-> h[i] * h[i]])
      IN (IF n > 1
          THEN <<Insight("numeric", numeric[1].k, "",
                         <<SumSeq(h), 2 * n,
                           n * sq - SumSeq(h) * SumSeq(h), 4 * n * n, 0,
                           sorted[1], sorted[n]>>)>>
          ELSE <<>>)
         \o numeric_insights(Tail(numeric))

\* lines 253-258: the lines of the categorical keys with at least 1 category
RECURSIVE categorical_insights(_)
categorical_insights(categorical) ==
    IF categorical = <<>> THEN <<>>
    ELSE
      LET categories == categorical[1].v
          total_count == SumSeq([i \in DOMAIN categories |-> categories[i].v])
          top_category == top_category_of(categories)
          top_count == DictGet(categories, top_category, 0)
      IN (IF categories # <<>>
          THEN <<Insight("categorical", categorical[1].k, top_category,
                         <<percentage_tenths(top_count, total_count), top_count>>)>>
          ELSE <<>>)
         \o categorical_insights(Tail(categorical))

analyze_excel_data(frames) ==
    LET st0 == [numeric |-> <<>>, categorical |-> <<>>, dates |-> <<>>,
                all_columns |-> <<>>, total_rows |-> 0,
                detailed_analysis |-> <<>>, data_overview |-> <<>>,
                file_summary |-> <<>>, file_analysis |-> <<>>]
        st == analyze_files(st0, frames, 1)
        total_files == Len(frames)
    IN [kind |-> "analysis",
        summary |-> [total_files |-> total_files,
                     total_rows |-> st.total_rows,
                     total_columns |-> Len(st.all_columns),
                     numeric_columns |-> Len(st.numeric),
                     categorical_columns |-> Len(st.categorical),
                     date_columns |-> Len(st.dates)],
        data_overview |-> st.data_overview,
        charts_data |-> [numeric |-> st.numeric, categorical |-> st.categorical,
                         dates |-> st.dates, identifiers |-> <<>>],
        detailed_analysis |-> st.detailed_analysis,
        insights |->
            <<Insight("files_rows", "", "", <<total_files, st.total_rows>>),
              Insight("numeric_count", "", "", <<Len(st.numeric)>>),
              Insight("categorical_count", "", "", <<Len(st.categorical)>>)>>
            \o (IF st.dates # <<>>
                THEN <<Insight("date_count", "", "", <<Len(st.dates)>>)>>
                ELSE <<>>)
            \o numeric_insights(st.numeric)
            \o categorical_insights(st.categorical)]

----------------------------------------------------------------------------
(* The mappings analyze_excel_data is run on *)

Column(name, dtype, cells) == [name |-> name, dtype |-> dtype, cells |-> cells]
\* a DataFrame: its number of rows and its columns, each of that many cells
DataFrame(columns) == [rows |-> Len(columns[1].cells), columns |-> columns]

DeptA == DataFrame(<<Column("Department", "object",
                            <<StrCell("Eng"), StrCell("Eng"), StrCell("Sales")>>)>>)
DeptB == DataFrame(<<Column("Department", "object", <<StrCell("HR"), StrCell("Eng")>>)>>)
DeptBlank == DataFrame(<<Column("Department", "object",
                                <<StrCell(" Eng"), NaN, StrCell("HR")>>)>>)
SalaryA == DataFrame(<<Column("Salary", "int64", <<IntCell(10), IntCell(20)>>)>>)
SalaryB == DataFrame(<<Column("Salary ", "float64",
                              <<IntCell(30), NaN, IntCell(60), IntCell(90)>>)>>)
SalaryOne == DataFrame(<<Column("Salary", "float64", <<NaN, IntCell(7)>>)>>)
\* the text cell stands for any text that reaches the frame as text
SalaryMixed == DataFrame(<<Column("Salary", "object",
                                  <<IntCell(50000), IntCell(60000), IntCell(70000),
                                    StrCell("TBD"), IntCell(80000)>>)>>)
DeptSalary == DataFrame(<<Column("Department", "object", <<StrCell("Eng"), StrCell("HR")>>),
                          Column("Salary", "int64", <<IntCell(30), IntCell(50)>>)>>)
EmpId == DataFrame(<<Column("emp_id", "int64", <<IntCell(1), IntCell(2), IntCell(3)>>)>>)
HireDate == DataFrame(<<Column("hire_date", "object",
                               <<StrCell("2020-01-01"), StrCell("2021-06-30"), NaN>>)>>)
\* 21 different texts: a text column
Remarks == DataFrame(<<Column("Department", "object",
                              [i \in 1..21 |-> StrCell("v" \o ToString(i))])>>)
\* a column without any value beside one with values: an empty column
DeptZip == DataFrame(<<Column("Department", "object", <<StrCell("Eng"), StrCell("HR")>>),
                       Column("Zip Code", "float64", <<NaN, NaN>>)>>)
\* a sheet without rows
NoRows == DataFrame(<<Column("Department", "object", <<>>)>>)

SheetPool == {DeptA, DeptB, DeptBlank, SalaryA, SalaryB, SalaryOne, SalaryMixed,
              DeptSalary, EmpId, HireDate, Remarks, DeptZip, NoRows}

\* the sheets with a categorical column
CategoricalSheets == {DeptA, DeptB, DeptBlank, DeptSalary, SalaryMixed}

\* sheets of one mapping, over all its files
MaxSheets == 2
\* sources of a mapping of one-sheet files
MaxSources == 3

FileName(i) == "f" \o ToString(i) \o ".xlsx"
SheetName(j) == "Sheet" \o ToString(j)

\* the numbers of sheets of the files of a mapping
FileSizes ==
    {q \in UNION {[1..m -> 1..MaxSheets] : m \in 0..MaxSheets} : SumSeq(q) <= MaxSheets}

\* the mapping whose i-th file holds the next q[i] frames of dfs
Frames(dfs, q) ==
    [i \in DOMAIN q |->
        [filename |-> FileName(i),
         sheets |-> [j \in 1..q[i] |->
                       [sheet_name |-> SheetName(j),
                        df |-> dfs[SumSeq(SubSeq(q, 1, i - 1)) + j]]]]]

\* a mapping of up to MaxSheets sheets of the pool, split into files in every
\* way, or a mapping of up to MaxSources one-sheet files with a categorical column
InitEngine ==
    /\ \/ \E k \in 0..MaxSheets : \E dfs \in [1..k -> SheetPool] :
             \E q \in FileSizes : SumSeq(q) = k /\ dataframes = Frames(dfs, q)
       \/ \E k \in 1..MaxSources : \E dfs \in [1..k -> CategoricalSheets] :
             dataframes = Frames(dfs, [i \in 1..k |-> 1])
    /\ analysis = NoAnalysis
    /\ pc = "start"
    /\ series = NoSeries
    /\ column_name = ""
    /\ col_type = "unused"
    /\ ServerIdle

\* a call of analyze_excel_data(dataframes)
Analyze ==
    /\ pc = "start"
    /\ analysis' = analyze_excel_data(dataframes)
    /\ pc' = "done"
    /\ UNCHANGED <<dataframes, series, column_name, col_type, server>>

\* a second call of analyze_excel_data on the same mapping
Reanalyze ==
    /\ pc = "done"
    /\ analysis' = analyze_excel_data(dataframes)
    /\ pc' = "again"
    /\ UNCHANGED <<dataframes, series, column_name, col_type, server>>

NextEngine == Analyze \/ Reanalyze

SpecEngine == InitEngine /\ [][NextEngine]_vars

----------------------------------------------------------------------------
(* upload_excel: the requests that upload workbooks *)

\* an uploaded file: whether pd.ExcelFile opens it, and its sheets, each with
\* whether pd.read_excel reads it and the frame it is read as
Upload(filename, opens, sheets) == [filename |-> filename, opens |-> opens, sheets |-> sheets]
RawSheet(sheet_name, reads, df) == [sheet_name |-> sheet_name, reads |-> reads, df |-> df]

\* lines 1217-1218: file.filename.lower().endswith('.xlsx') or ...('.xls')
is_excel_name(filename) ==
    filename \in {"dept.xlsx", "salary.xlsx", "mixed.xlsx", "blank.xlsx",
                  "corrupt.xlsx", "rival.xlsx"}

\* lines 1240-1243: the column names trimmed, then the rows and the columns
\* without any value dropped
clean_frame(df) ==
    LET rows == SelectSeq([r \in 1..df.rows |-> r],
                          LAMBDA r : \E c \in DOMAIN df.columns :
                                        notna(df.columns[c].cells[r]))
        kept == SelectSeq(df.columns,
                          LAMBDA col : \E r \in DOMAIN col.cells : notna(col.cells[r]))
    IN [rows |-> Len(rows),
        columns |-> [c \in DOMAIN kept |->
                        [name |-> strip_name(kept[c].name),
                         dtype |-> kept[c].dtype,
                         cells |-> [r \in DOMAIN rows |-> kept[c].cells[rows[r]]]]]]

\* a faulty variant: a sheet that cannot be read loses the file all its sheets
read_sheets_all_or_nothing(file) ==
    IF \E j \in DOMAIN file.sheets : ~file.sheets[j].reads THEN <<>>
    ELSE
      LET cleaned == [j \in DOMAIN file.sheets |->
                        [sheet_name |-> file.sheets[j].sheet_name,
                         df |-> clean_frame(file.sheets[j].df)]]
      IN SelectSeq(cleaned, LAMBDA sheet : ~df_empty(sheet.df))

\* lines 1235-1257: the loop over excel_file.sheet_names: a sheet whose read
\* raises is passed over, one that is empty after cleaning is left out
read_sheets(file) ==
    LET readable == SelectSeq(file.sheets, LAMBDA sheet : sheet.reads)
        cleaned == [j \in DOMAIN readable |->
                      [sheet_name |-> readable[j].sheet_name,
                       df |-> clean_frame(readable[j].df)]]
    IN SelectSeq(cleaned, LAMBDA sheet : ~df_empty(sheet.df))

\* dataframes[file.filename] = sheets
frames_set(frames, filename, sheets) ==
    IF \E i \in DOMAIN frames : frames[i].filename = filename
    THEN [i \in DOMAIN frames |->
            IF frames[i].filename = filename
            THEN [filename |-> filename, sheets |-> sheets] ELSE frames[i]]
    ELSE Append(frames, [filename |-> filename, sheets |-> sheets])

\* a faulty variant: the mapping of a request starts from the sheets of a
\* request that was analysed before
dataframes_of_earlier_upload ==
    IF \E r \in DOMAIN requests : requests[r].pc \in {"respond", "done"}
    THEN requests[CHOOSE r \in DOMAIN requests :
                      requests[r].pc \in {"respond", "done"}].dataframes
    ELSE <<>>

\* line 1210: dataframes = {}
new_dataframes == <<>>

NoResponse == [status |-> 0, files |-> <<>>, summary |-> <<>>]
Failure(status) == [status |-> status, files |-> <<>>, summary |-> <<>>]

\* a request that has not been received yet
Request(files) ==
    [pc |-> "idle", files |-> files, i |-> 1, dataframes |-> <<>>,
     response |-> NoResponse]

\* lines 1202-1211: without a named file the request is answered 400; else the
\* global list is emptied and the request starts on its files
UploadBegin(r) ==
    /\ pc = "serving"
    /\ requests[r].pc = "idle"
    /\ IF \A i \in DOMAIN requests[r].files : requests[r].files[i].filename = ""
       THEN /\ requests' = [requests EXCEPT ![r].pc = "failed",
                                            ![r].response = Failure(400)]
            /\ UNCHANGED uploaded_files
       ELSE /\ uploaded_files' = <<>>
            /\ requests' = [requests EXCEPT ![r].pc = "files",
                                            ![r].dataframes = new_dataframes]
    /\ UNCHANGED <<report_data, reports, series, column_name, col_type, dataframes,
                   analysis, pc>>

\* lines 1213-1270: one round of `for file in files`: a file without a name or
\* that is no workbook is passed over; one that cannot be opened ends the
\* request with 400; of the others the sheets are read, and a file with a sheet
\* left goes into the mapping and onto the global list
UploadFile(r) ==
    /\ pc = "serving"
    /\ requests[r].pc = "files"
    /\ requests[r].i <= Len(requests[r].files)
    /\ LET file == requests[r].files[requests[r].i]
           sheets == read_sheets(file)
       IN IF file.filename = "" \/ ~is_excel_name(file.filename)
          THEN /\ requests' = [requests EXCEPT ![r].i = @ + 1]
               /\ UNCHANGED uploaded_files
          ELSE IF ~file.opens
          THEN /\ requests' = [requests EXCEPT ![r].pc = "failed",
                                               ![r].response = Failure(400)]
               /\ UNCHANGED uploaded_files
          ELSE IF sheets = <<>>
          THEN /\ requests' = [requests EXCEPT ![r].i = @ + 1]
               /\ UNCHANGED uploaded_files
          ELSE /\ requests' = [requests EXCEPT
                                  ![r].i = @ + 1,
                                  ![r].dataframes = frames_set(@, file.filename, sheets)]
               /\ uploaded_files' =
                     Append(uploaded_files,
                            [filename |-> file.filename,
                             sheets |-> [j \in DOMAIN sheets |-> sheets[j].sheet_name]])
    /\ UNCHANGED <<report_data, reports, series, column_name, col_type, dataframes,
                   analysis, pc>>

\* a faulty variant: a request without a usable file empties report_data
UploadCheck_clearing(r) ==
    /\ pc = "serving"
    /\ requests[r].pc = "files"
    /\ requests[r].i > Len(requests[r].files)
    /\ IF uploaded_files = <<>>
       THEN /\ requests' = [requests EXCEPT ![r].pc = "failed",
                                            ![r].response = Failure(400)]
            /\ report_data' = NoAnalysis
       ELSE /\ requests' = [requests EXCEPT ![r].pc = "analyze"]
            /\ UNCHANGED report_data
    /\ UNCHANGED <<uploaded_files, reports, series, column_name, col_type,
                   dataframes, analysis, pc>>

\* lines 1272-1273: after the last file, `if not uploaded_files` answers 400
UploadCheck(r) ==
    /\ pc = "serving"
    /\ requests[r].pc = "files"
    /\ requests[r].i > Len(requests[r].files)
    /\ IF uploaded_files = <<>>
       THEN requests' = [requests EXCEPT ![r].pc = "failed",
                                         ![r].response = Failure(400)]
       ELSE requests' = [requests EXCEPT ![r].pc = "analyze"]
    /\ UNCHANGED <<uploaded_files, report_data, reports, series, column_name, col_type,
                   dataframes, analysis, pc>>

\* a faulty variant: the analysis reads the sheets of every request in progress
UploadAnalyze_shared(r) ==
    /\ pc = "serving"
    /\ requests[r].pc = "analyze"
    /\ report_data' = analyze_excel_data(
                          Flatten([q \in DOMAIN requests |-> requests[q].dataframes]))
    /\ requests' = [requests EXCEPT ![r].pc = "respond"]
    /\ UNCHANGED <<uploaded_files, reports, series, column_name, col_type, dataframes,
                   analysis, pc>>

\* line 1276: report_data = analyze_excel_data(dataframes)
UploadAnalyze(r) ==
    /\ pc = "serving"
    /\ requests[r].pc = "analyze"
    /\ report_data' = analyze_excel_data(requests[r].dataframes)
    /\ requests' = [requests EXCEPT ![r].pc = "respond"]
    /\ UNCHANGED <<uploaded_files, reports, series, column_name, col_type, dataframes,
                   analysis, pc>>

\* lines 1278-1283: the answer reads the two globals
UploadRespond(r) ==
    /\ pc = "serving"
    /\ requests[r].pc = "respond"
    /\ requests' = [requests EXCEPT
                       ![r].pc = "done",
                       ![r].response = [status |-> 200, files |-> uploaded_files,
                                        summary |-> report_data.summary]]
    /\ UNCHANGED <<uploaded_files, report_data, reports, series, column_name, col_type,
                   dataframes, analysis, pc>>

\* the workbooks a request may hold
DeptFile == Upload("dept.xlsx", TRUE, <<RawSheet("Sheet1", TRUE, DeptBlank)>>)
SalaryFile == Upload("salary.xlsx", TRUE, <<RawSheet("Sheet1", TRUE, SalaryB)>>)
\* a workbook whose first sheet cannot be read as a table
MixedFile == Upload("mixed.xlsx", TRUE, <<RawSheet("Chart1", FALSE, NoRows),
                                          RawSheet("Sheet2", TRUE, DeptA)>>)
\* a workbook whose only sheet has no rows
BlankFile == Upload("blank.xlsx", TRUE, <<RawSheet("Sheet1", TRUE, NoRows)>>)
\* a file pd.ExcelFile cannot open
CorruptFile == Upload("corrupt.xlsx", FALSE, <<>>)
\* a file that is no workbook
TextFile == Upload("notes.txt", FALSE, <<>>)
RivalFile == Upload("rival.xlsx", TRUE, <<RawSheet("Sheet1", TRUE, DeptB)>>)

UploadPool == {DeptFile, SalaryFile, MixedFile, BlankFile, CorruptFile, TextFile}

\* files of the first request
MaxFiles == 2

\* the file lists of the second request
RivalUploads == {<<>>, <<RivalFile>>, <<BlankFile>>}

\* two requests, the first with up to MaxFiles files of the pool
InitUpload ==
    /\ \E n \in 0..MaxFiles : \E files \in [1..n -> UploadPool] :
          \E rival \in RivalUploads :
             requests = <<Request(files), Request(rival)>>
    /\ uploaded_files = <<>>
    /\ report_data = NoAnalysis
    /\ reports = <<>>
    /\ pc = "serving"
    /\ series = NoSeries
    /\ column_name = ""
    /\ col_type = "unused"
    /\ dataframes = <<>>
    /\ analysis = NoAnalysis

\* line 1339: threaded=True: the steps of the requests interleave
NextUpload ==
    \/ \E r \in DOMAIN requests : UploadBegin(r)
    \/ \E r \in DOMAIN requests : UploadFile(r)
    \/ \E r \in DOMAIN requests : UploadCheck(r)
    \/ \E r \in DOMAIN requests : UploadAnalyze(r)
    \/ \E r \in DOMAIN requests : UploadRespond(r)

SpecUpload == InitUpload /\ [][NextUpload]_vars

----------------------------------------------------------------------------
(* generate_reports, and the requests served one after another *)

\* a faulty variant: the test for an upload is missing
not_report_data_skipped == FALSE

\* line 1294: `not report_data`: the dict of line 69 is falsy, a result is not
not_report_data == report_data = NoAnalysis

\* an answer of generate_reports, and whether generate_pdf_report was called
ReportAnswer(status, error, pdf) == [status |-> status, error |-> error, pdf |-> pdf]

\* generate_reports requests served
MaxReports == 2

\* lines 1289-1315: generate_reports on a request with or without a JSON body
GenerateReports(has_data) ==
    /\ pc = "serving"
    /\ Len(reports) < MaxReports
    /\ reports' =
          Append(reports,
                 IF not_report_data THEN ReportAnswer(400, "No data available. Please upload Excel files first.", FALSE)
                 ELSE IF ~has_data THEN ReportAnswer(400, "Invalid request data", FALSE)
                 ELSE ReportAnswer(200, "", TRUE))
    /\ UNCHANGED <<uploaded_files, report_data, requests, series, column_name,
                   col_type, dataframes, analysis, pc>>

\* no other request is being served
Alone(r) ==
    \A q \in DOMAIN requests : q # r => requests[q].pc \in {"idle", "done", "failed"}

\* no request is being served
Quiet == \A q \in DOMAIN requests : requests[q].pc \in {"idle", "done", "failed"}

\* the requests do not overlap: a request is served to its answer before the
\* next one is received
NextSession ==
    \/ \E r \in DOMAIN requests : Alone(r) /\ UploadBegin(r)
    \/ \E r \in DOMAIN requests : Alone(r) /\ UploadFile(r)
    \/ \E r \in DOMAIN requests : Alone(r) /\ UploadCheck(r)
    \/ \E r \in DOMAIN requests : Alone(r) /\ UploadAnalyze(r)
    \/ \E r \in DOMAIN requests : Alone(r) /\ UploadRespond(r)
    \/ \E has_data \in BOOLEAN : Quiet /\ GenerateReports(has_data)

SpecSession == InitUpload /\ [][NextSession]_vars

----------------------------------------------------------------------------
(* What the classifier claims speak of, read off the column itself *)

Classified == pc = "classified"

\* the non-missing values of the column under classification
NonMissing == SelectSeq(series.cells, LAMBDA c : c.kind # "nan")
DistinctCount == Cardinality({NonMissing[i] : i \in DOMAIN NonMissing})
AllIntegers == \A i \in DOMAIN NonMissing : NonMissing[i].kind = "int"
AllText == \A i \in DOMAIN NonMissing : NonMissing[i].kind = "str"
\* each of the first 10 non-missing values converts to a date
FirstTenParse ==
    \A i \in DOMAIN NonMissing :
        i <= 10 => \/ NonMissing[i].kind \in {"int", "float"}
                   \/ NonMissing[i].text \in DateTexts
NameKeywords == substrings(lower_strip(column_name))
DateNamed == NameKeywords \cap {"date", "time", "created", "updated", "birth", "hire", "start", "end"} # {}
ParsedAsDate == DateNamed /\ FirstTenParse

\* C1 (as claimed, read within step 3 of the classifier: names with a date
\* keyword are left out): a column whose non-missing values are all integers,
\* with distinct/non-missing > 0.8, is 'identifier' under a name containing
\* "id" and 'numeric' under a name with none of id, code, number.
C1_IdentifierByValues ==
    (Classified /\ Len(NonMissing) > 0 /\ AllIntegers
        /\ 5 * DistinctCount > 4 * Len(NonMissing) /\ ~DateNamed)
    => /\ "id" \in NameKeywords => col_type = "identifier"
       /\ NameKeywords \cap {"id", "code", "number"} = {} => col_type = "numeric"

\* C2 (as claimed): a column with a non-missing value, only text values and at
\* most 20 distinct values is 'categorical' whatever its name.
C2_CategoricalAnyName ==
    (Classified /\ Len(NonMissing) > 0 /\ AllText /\ DistinctCount <= 20)
    => col_type = "categorical"

\* C2 (amended): such a column is 'categorical' unless its name holds a date
\* keyword and its first 10 non-missing values parse as dates; then it is 'date'.
C2_CategoricalUnlessDate ==
    (Classified /\ Len(NonMissing) > 0 /\ AllText /\ DistinctCount <= 20)
    => col_type = IF ParsedAsDate THEN "date" ELSE "categorical"

\* C2 witness: a text column of exactly 20 distinct values among more rows,
\* under a name with a date keyword, classified categorical
C2_Witness ==
    /\ Classified /\ AllText /\ DistinctCount = 20 /\ Len(NonMissing) > 20
    /\ DateNamed /\ col_type = "categorical"

C4_DateExactly ==
    Classified =>
      /\ col_type = "date" <=> (Len(NonMissing) > 0 /\ ParsedAsDate)
      /\ (DateNamed /\ ~FirstTenParse) =>
            \A n \in Names :
                (substrings(lower_strip(n)) \cap DateKeywords = {})
                    => col_type = detect_column_type(series, n)

\* C4 witness: a date column with more than 10 non-missing values, one of
\* which, after the tenth, does not parse
C4_Witness ==
    /\ Classified /\ col_type = "date" /\ Len(NonMissing) > 10
    /\ \E i \in DOMAIN NonMissing :
          i > 10 /\ NonMissing[i].kind = "str" /\ NonMissing[i].text \notin DateTexts

\* C5: 'empty' exactly when the column has no non-missing value, whatever the
\* name; otherwise exactly one of identifier, numeric, categorical, date, text.
C5_EmptyExactly ==
    Classified =>
      /\ col_type = "empty" <=> Len(NonMissing) = 0
      /\ Len(NonMissing) > 0 =>
            col_type \in {"identifier", "numeric", "categorical", "date", "text"}

\* C5 witness: a column of missing cells only, under a name with a date keyword
C5_Witness ==
    /\ Classified /\ Len(series.cells) > 0 /\ Len(NonMissing) = 0
    /\ DateNamed /\ col_type = "empty"

----------------------------------------------------------------------------
(* What the engine claims speak of, read off the input mapping itself *)

Done == pc = "done"

\* the Column Instances of a mapping in processing order: the columns of the
\* sheets that have rows
InstancesOfSheet(file, sheet) ==
    IF sheet.df.rows = 0 THEN <<>>
    ELSE [i \in DOMAIN sheet.df.columns |->
            [filename |-> file.filename, sheet_name |-> sheet.sheet_name,
             column |-> sheet.df.columns[i]]]
InstancesOfFile(file) ==
    Flatten([j \in DOMAIN file.sheets |-> InstancesOfSheet(file, file.sheets[j])])
InstancesOf(frames) == Flatten([i \in DOMAIN frames |-> InstancesOfFile(frames[i])])
Instances == InstancesOf(dataframes)

KeyOf(inst) == strip_name(inst.column.name)
TypeOf(inst) ==
    detect_column_type([dtype |-> inst.column.dtype, cells |-> inst.column.cells],
                       inst.column.name)
ValuesOf(inst) == SelectSeq(inst.column.cells, LAMBDA c : c.kind # "nan")
Keys == {KeyOf(Instances[i]) : i \in DOMAIN Instances}
NumberSum(cells) == SumSeq([i \in DOMAIN cells |-> cells[i].num])

\* the raw values of the numeric instances of a key, one instance after another
RawNumeric(key) ==
    Flatten([i \in DOMAIN Instances |->
               IF KeyOf(Instances[i]) = key /\ TypeOf(Instances[i]) = "numeric"
               THEN ValuesOf(Instances[i]) ELSE <<>>])

Pooled(key) == DictGet(analysis.charts_data.numeric, key, <<>>)

\* C6: the pooled numeric list of every Column Key is the concatenation, in
\* processing order, of the values of its numeric instances, so its sum and
\* its length are those of all the raw values.
C6_PooledIsConcatenation ==
    Done => \A key \in Keys :
      /\ Pooled(key) = RawNumeric(key)
      /\ Len(Pooled(key)) = Len(RawNumeric(key))
      /\ NumberSum(Pooled(key)) = NumberSum(RawNumeric(key))
      /\ DictHas(analysis.charts_data.numeric, key) <=> RawNumeric(key) # <<>>

\* C6 witness: two sources hold numeric instances of one key with different
\* numbers of values, and the pooled mean (210 / 5) is not the mean of the two
\* source means ((15 + 60) / 2)
C6_Witness ==
    /\ Done /\ Len(dataframes) = 2
    /\ dataframes[1].sheets = <<[sheet_name |-> "Sheet1", df |-> SalaryA]>>
    /\ dataframes[2].sheets = <<[sheet_name |-> "Sheet1", df |-> SalaryB]>>
    /\ Len(Pooled("Salary")) = 5 /\ NumberSum(Pooled("Salary")) = 210
    /\ 2 * NumberSum(Pooled("Salary")) # Len(Pooled("Salary")) * (15 + 60)

\* the sources of a mapping folded in another order
FoldOrders(n) == {p \in [1..n -> 1..n] : \A i, j \in 1..n : p[i] = p[j] => i = j}
Reordered(frames, p) == [i \in DOMAIN frames |-> frames[p[i]]]

\* the merged categorical counts as a set of (Column Key, value, count)
CountsOf(a) ==
    UNION {{<<a.charts_data.categorical[i].k,
              a.charts_data.categorical[i].v[j].k,
              a.charts_data.categorical[i].v[j].v>> :
                j \in DOMAIN a.charts_data.categorical[i].v} :
           i \in DOMAIN a.charts_data.categorical}
CategoricalKeysOf(a) ==
    {a.charts_data.categorical[i].k : i \in DOMAIN a.charts_data.categorical}

\* C7: the merged categorical counts are the same in whatever order the
\* sources are folded.
C7_CountsOrderIndependent ==
    Done => \A p \in FoldOrders(Len(dataframes)) :
      LET other == analyze_excel_data(Reordered(dataframes, p)) IN
      /\ CountsOf(other) = CountsOf(analysis)
      /\ CategoricalKeysOf(other) = CategoricalKeysOf(analysis)

\* the occurrences of a value among the categorical instances of a key in a mapping
Occurrences(frames, key, value) ==
    LET insts == InstancesOf(frames) IN
    SumSeq([i \in DOMAIN insts |->
              IF KeyOf(insts[i]) = key /\ TypeOf(insts[i]) = "categorical"
              THEN Cardinality({r \in DOMAIN insts[i].column.cells :
                                  /\ insts[i].column.cells[r].kind # "nan"
                                  /\ str_strip(insts[i].column.cells[r]) = value})
              ELSE 0])

\* C7 witness: three sources hold one value of one key, in different numbers
C7_Witness ==
    /\ Done /\ Len(dataframes) = 3
    /\ Occurrences(<<dataframes[1]>>, "Department", "Eng") = 2
    /\ Occurrences(<<dataframes[2]>>, "Department", "Eng") = 1
    /\ Occurrences(<<dataframes[3]>>, "Department", "Eng") = 1
    /\ <<"Department", "Eng", 4>> \in CountsOf(analysis)

CategoricalLines(key) ==
    SelectSeq(analysis.insights, LAMBDA l : l.kind = "categorical" /\ l.col = key)

DepartmentScenario == Frames(<<DeptA, DeptB>>, <<1, 1>>)

\* C8: the merged count of a value of a categorical key is the sum of its
\* occurrences over all sources, and the key's insight line names a value of
\* the largest merged count, with that count over the key's total as its share
\* (Department: Eng 3, Sales 1, HR 1 and "Eng" at 60.0%).
C8_MergedCountsAndTopShare ==
    Done =>
      /\ \A t \in CountsOf(analysis) : t[3] = Occurrences(dataframes, t[1], t[2])
      /\ \A key \in CategoricalKeysOf(analysis) :
            LET counts == {t \in CountsOf(analysis) : t[1] = key}
                total == SumSeq([i \in DOMAIN Instances |->
                            IF KeyOf(Instances[i]) = key
                               /\ TypeOf(Instances[i]) = "categorical"
                            THEN Len(ValuesOf(Instances[i])) ELSE 0])
                lines == CategoricalLines(key)
            IN /\ Len(lines) = 1
               /\ <<key, lines[1].top, lines[1].nums[2]>> \in counts
               /\ \A t \in counts : t[3] <= lines[1].nums[2]
               \* the share is count / total * 100 rounded to one decimal
               /\ 2 * lines[1].nums[1] * total - 2000 * lines[1].nums[2] <= total
               /\ 2000 * lines[1].nums[2] - 2 * lines[1].nums[1] * total <= total
      /\ dataframes = DepartmentScenario =>
            /\ CountsOf(analysis) = {<<"Department", "Eng", 3>>,
                                     <<"Department", "Sales", 1>>,
                                     <<"Department", "HR", 1>>}
            /\ CategoricalLines("Department")
                 = <<Insight("categorical", "Department", "Eng", <<600, 3>>)>>

\* C8 witness: the two Department sources have been analysed
C8_Witness == Done /\ dataframes = DepartmentScenario

\* a column of numbers and of texts that are no numbers, some of each
MixedNumbers(inst) ==
    /\ \E i \in DOMAIN inst.column.cells : inst.column.cells[i].kind = "int"
    /\ \E i \in DOMAIN inst.column.cells :
          inst.column.cells[i].kind = "str" /\ inst.column.cells[i].text \notin NumericTexts
    /\ \A i \in DOMAIN inst.column.cells :
          \/ inst.column.cells[i].kind = "int"
          \/ inst.column.cells[i].kind = "str" /\ inst.column.cells[i].text \notin NumericTexts

NoStats == [count |-> 0, mean |-> [num |-> 0, den |-> 1]]

\* C9 (as claimed): a column of numbers and of cells that do not parse as
\* numbers gets a numeric aggregate that counts every number and leaves the
\* other cells out (Salary: count 4, mean 65000).
C9_MixedColumnNumericAggregate ==
    (Done /\ Len(Instances) = 1 /\ MixedNumbers(Instances[1])) =>
      LET numbers == SelectSeq(Instances[1].column.cells, LAMBDA c : c.kind = "int")
          stats == DictGet(analysis.detailed_analysis[1].v.numeric_stats,
                           KeyOf(Instances[1]), NoStats)
      IN /\ stats.count = Len(numbers)
         /\ stats.mean.num * Len(numbers) = 2 * NumberSum(numbers) * stats.mean.den
         /\ Pooled(KeyOf(Instances[1])) = numbers

\* C10 (as claimed): a mapping without sources, or whose sources yield no
\* Column Instance, is not answered with an Analysis Result of zero counts.
C10_NoDataSignalled ==
    (Done /\ Len(Instances) = 0) =>
      ~ /\ analysis.kind = "analysis"
        /\ analysis.summary.total_rows = 0
        /\ analysis.summary.total_columns = 0
        /\ analysis.summary.numeric_columns = 0
        /\ analysis.summary.categorical_columns = 0
        /\ analysis.summary.date_columns = 0

----------------------------------------------------------------------------
(* The engine run twice, its records and its insight lines *)

\* the categorical keys of the result in which several values hold the largest count
TiedKeys ==
    {i \in DOMAIN analysis.charts_data.categorical :
        LET categories == analysis.charts_data.categorical[i].v IN
        \E a, b \in DOMAIN categories :
            /\ a # b /\ categories[a].v = categories[b].v
            /\ \A j \in DOMAIN categories : categories[j].v <= categories[a].v}

QualityOf(filename) ==
    IF DictHas(analysis.detailed_analysis, filename)
    THEN DictGet(analysis.detailed_analysis, filename, <<>>).data_quality
    ELSE <<>>

\* the Column Instances of a key in a file, in processing order
InstancesIn(filename, key) ==
    SelectSeq(Instances, LAMBDA inst : inst.filename = filename /\ KeyOf(inst) = key)

\* the rows of the sheet of an instance, and those in which it is missing
RowsOf(inst) == Len(inst.column.cells)
MissingOf(inst) == Cardinality({r \in DOMAIN inst.column.cells :
                                   inst.column.cells[r].kind = "nan"})

\* the columns of the sheets with rows, counted file by file
ColumnsPerFile ==
    SumSeq([f \in DOMAIN dataframes |->
              Cardinality({i \in DOMAIN Instances :
                              Instances[i].filename = dataframes[f].filename})])

TrimmedNames ==
    {CASE Instances[i].column.name = "Salary " -> "Salary"
       [] Instances[i].column.name = " EMP_ID " -> "EMP_ID"
       [] OTHER -> Instances[i].column.name : i \in DOMAIN Instances}

\* C13: summary.total_columns is the number of distinct trimmed column names
\* over the sheets with rows of all sources, each name counted once.
C13_TotalColumnsDistinctKeys ==
    Done => /\ analysis.summary.total_columns = Cardinality(TrimmedNames)
            /\ analysis.summary.total_columns <= ColumnsPerFile

\* C13 witness: two sources hold one Column Key under names that differ before
\* trimming, and total_columns is 1, not the 2 of the per-file column counts
C13_Witness ==
    /\ Done /\ Len(dataframes) = 2 /\ Len(Instances) = 2
    /\ Instances[1].column.name # Instances[2].column.name
    /\ TrimmedNames = {"Salary"}
    /\ analysis.summary.total_columns = 1 /\ ColumnsPerFile = 2

\* the distinct elements of a sequence in order of first appearance
RECURSIVE FirstKeys(_, _)
FirstKeys(keys, seen) ==
    IF keys = <<>> THEN seen
    ELSE IF \E i \in DOMAIN seen : seen[i] = keys[1]
         THEN FirstKeys(Tail(keys), seen)
         ELSE FirstKeys(Tail(keys), Append(seen, keys[1]))

\* the Column Keys of the instances of a type, in first-seen order
KeysOfType(type) ==
    LET of == SelectSeq(Instances, LAMBDA inst : TypeOf(inst) = type)
    IN FirstKeys([i \in DOMAIN of |-> KeyOf(of[i])], <<>>)

\* the kind and Column Key of each line of a sequence of lines
Headings(lines) == [i \in DOMAIN lines |-> <<lines[i].kind, lines[i].col>>]

\* the lines of the numeric keys that pool at least 2 values, then those of the
\* categorical keys
KeyHeadings ==
    LET numeric == SelectSeq(KeysOfType("numeric"),
                             LAMBDA key : Len(RawNumeric(key)) >= 2)
        categorical == KeysOfType("categorical")
    IN [i \in DOMAIN numeric |-> <<"numeric", numeric[i]>>]
       \o [i \in DOMAIN categorical |-> <<"categorical", categorical[i]>>]

NoRecord == [null_count |-> -1, null_percentage |-> [num |-> -1, den |-> 1],
             unique_count |-> -1]

\* C18 (as claimed): every Column Instance of a sheet with rows has a Data
\* Quality Record of its own null count, null percentage and distinct-value
\* count, also when two sheets of one source have a column of the same name.
C18_RecordPerInstance ==
    Done => \A i \in DOMAIN Instances :
      LET inst == Instances[i]
          rec == DictGet(QualityOf(inst.filename), KeyOf(inst), NoRecord)
      IN /\ rec.null_count = MissingOf(inst)
         /\ rec.null_percentage.num * RowsOf(inst)
               = 100 * MissingOf(inst) * rec.null_percentage.den
         /\ rec.unique_count
               = Cardinality({ValuesOf(inst)[r] : r \in DOMAIN ValuesOf(inst)})

\* the instances of a key of one type
TypedInstances(key, type) ==
    SelectSeq(Instances, LAMBDA inst : KeyOf(inst) = key /\ TypeOf(inst) = type)

\* the values of the date instances of a key that read as dates, one instance
\* after another
RawDates(key) ==
    LET of == TypedInstances(key, "date") IN
    Flatten([i \in DOMAIN of |->
               SelectSeq(of[i].column.cells,
                         LAMBDA c : \/ c.kind \in {"int", "float"}
                                    \/ c.kind = "str" /\ c.text \in DateTexts)])

\* the number of values counted under a categorical key of the result
CountedUnder(key) ==
    LET categories == DictGet(analysis.charts_data.categorical, key, <<>>)
    IN SumSeq([j \in DOMAIN categories |-> categories[j].v])

BucketKeys(bucket) == {bucket[i].k : i \in DOMAIN bucket}

\* C19: every bucket of charts_data holds, under a Column Key, the values of
\* the instances of that key whose own type is the bucket's, and nothing else:
\* identifier, text and empty instances reach no bucket, and a key whose
\* instances differ in type is in each matching bucket.
C19_BucketsByInstanceType ==
    Done =>
      /\ BucketKeys(analysis.charts_data.numeric)
            = {key \in Keys : TypedInstances(key, "numeric") # <<>>}
      /\ BucketKeys(analysis.charts_data.categorical)
            = {key \in Keys : TypedInstances(key, "categorical") # <<>>}
      /\ BucketKeys(analysis.charts_data.dates)
            = {key \in Keys : TypedInstances(key, "date") # <<>>}
      /\ analysis.charts_data.identifiers = <<>>
      /\ \A key \in Keys :
            LET categorical == TypedInstances(key, "categorical") IN
            /\ Pooled(key) = RawNumeric(key)
            /\ DictGet(analysis.charts_data.dates, key, <<>>) = RawDates(key)
            /\ CountedUnder(key)
                 = SumSeq([i \in DOMAIN categorical |-> Len(ValuesOf(categorical[i]))])

\* C19 witness: a key is numeric in one source and categorical in another and
\* is in both buckets, the numeric one holding the numeric instance's values only
C19_Witness ==
    /\ Done
    /\ \E key \in Keys :
          /\ TypedInstances(key, "numeric") # <<>>
          /\ TypedInstances(key, "categorical") # <<>>
          /\ key \in BucketKeys(analysis.charts_data.numeric)
          /\ key \in BucketKeys(analysis.charts_data.categorical)
          /\ Len(Pooled(key)) = Len(ValuesOf(TypedInstances(key, "numeric")[1]))

----------------------------------------------------------------------------
(* What the upload claims speak of, read off the files of a request *)

\* the rows of a frame that hold a value
ValueRows(df) ==
    Cardinality({r \in 1..df.rows :
                    \E c \in DOMAIN df.columns : df.columns[c].cells[r].kind # "nan"})

\* a file is a workbook that opens
Opens(file) == file.filename # "" /\ is_excel_name(file.filename) /\ file.opens

\* the sheets of a file that are read and hold a value
UsableSheets(file) ==
    {j \in DOMAIN file.sheets : file.sheets[j].reads /\ ValueRows(file.sheets[j].df) > 0}

Usable(file) == Opens(file) /\ UsableSheets(file) # {}

\* the mapping of the usable files among the first n files of a request
RECURSIVE FramesOfFirst(_, _)
FramesOfFirst(files, n) ==
    IF n = 0 THEN <<>>
    ELSE IF Usable(files[n])
         THEN frames_set(FramesOfFirst(files, n - 1), files[n].filename,
                         read_sheets(files[n]))
         ELSE FramesOfFirst(files, n - 1)

FramesOf(files) == FramesOfFirst(files, Len(files))

\* the analysis of the files of a request alone
AnalysisOf(r) == analyze_excel_data(FramesOf(requests[r].files))

\* request r stores its analysis in this step
Stores(r) == requests[r].pc = "analyze" /\ requests'[r].pc = "respond"

Succeeded(r) == requests[r].pc = "done" /\ requests[r].response.status = 200

\* C15: the step of a request that assigns report_data leaves in it the
\* analysis of the files of that request and nothing else, whatever it held.
C15_ReportReplaced ==
    [][\A r \in DOMAIN requests : Stores(r) => report_data' = AnalysisOf(r)]_vars

\* C15 witness: a request was answered with the summary of its own files, and
\* after the next request report_data is the analysis of the files of that one
C15_Witness ==
    /\ Succeeded(1) /\ Succeeded(2)
    /\ requests[1].response.summary = AnalysisOf(1).summary
    /\ AnalysisOf(1).summary.total_rows > 0
    /\ AnalysisOf(1).charts_data # AnalysisOf(2).charts_data
    /\ report_data = AnalysisOf(2)
    /\ requests[2].response.summary = AnalysisOf(2).summary
    /\ uploaded_files = <<[filename |-> "rival.xlsx", sheets |-> <<"Sheet1">>]>>

\* the sheets a result lists for a file, with their rows
ListedSheets(result, filename) ==
    UNION {{<<result.data_overview[i].sheets[j].k, result.data_overview[i].sheets[j].v.rows>> :
              j \in DOMAIN result.data_overview[i].sheets} :
           i \in {x \in DOMAIN result.data_overview :
                     result.data_overview[x].filename = filename}}

\* C16: when a request stores its analysis, every sheet of its files that was
\* read and holds a value is in the result with its rows, also in a file
\* another sheet of which could not be read.
C16_UnreadableSheetSkipped ==
    [][\A r \in DOMAIN requests : Stores(r) =>
          \A i \in DOMAIN requests[r].files :
             LET file == requests[r].files[i] IN
             Opens(file) =>
               \A j \in UsableSheets(file) :
                  <<file.sheets[j].sheet_name, ValueRows(file.sheets[j].df)>>
                     \in ListedSheets(report_data', file.filename)]_vars

\* C16 witness: a request of two files, one of them with a sheet that could
\* not be read, has succeeded and both files are in the result
C16_Witness ==
    /\ Succeeded(1) /\ Len(requests[1].files) = 2
    /\ \E i \in DOMAIN requests[1].files :
          /\ Usable(requests[1].files[i])
          /\ \E j \in DOMAIN requests[1].files[i].sheets :
                ~requests[1].files[i].sheets[j].reads
    /\ report_data = AnalysisOf(1)
    /\ report_data.summary.total_files = 2
    /\ Len(report_data.data_overview) = 2

\* C17 (as claimed): a request is answered with a failure only when none of
\* its files has a sheet that is read and holds a value.
C17_FailsOnlyWithoutData ==
    \A r \in DOMAIN requests :
        requests[r].pc = "failed" =>
           \A i \in DOMAIN requests[r].files : ~Usable(requests[r].files[i])

Finished(r) == requests[r].pc \in {"done", "failed"}

C20_OtherOrder ==
    /\ Succeeded(1) /\ Succeeded(2)
    /\ AnalysisOf(1).summary # AnalysisOf(2).summary
    /\ report_data = AnalysisOf(2)
    /\ requests[1].response.summary = AnalysisOf(2).summary

----------------------------------------------------------------------------
(* The standard deviations and the categorical totals of a result *)

NumericLines(key) ==
    SelectSeq(analysis.insights, LAMBDA l : l.kind = "numeric" /\ l.col = key)

\* the numeric_stats a file of the result holds for a key
StatsOf(filename, key) ==
    DictGet(DictGet(analysis.detailed_analysis, filename, <<>>).numeric_stats,
            key, <<>>)

\* C21 (as claimed): where the pooled list of a key is the list of one numeric
\* instance of at least 2 values, the std of that instance's numeric_stats and
\* the Std Dev of the key's insight line have the same divisor and the same
\* value.
C21_OneStdConvention ==
    Done => \A key \in Keys :
      LET numeric == TypedInstances(key, "numeric") IN
      (Len(numeric) = 1 /\ Len(ValuesOf(numeric[1])) >= 2
         /\ Len(InstancesIn(numeric[1].filename, key)) = 1) =>
        LET std == StatsOf(numeric[1].filename, key).std
            line == NumericLines(key)[1]
        IN /\ Len(NumericLines(key)) = 1
           /\ std.ddof = line.nums[5]
           /\ std.sq_num * line.nums[4] = line.nums[3] * std.sq_den

\* the categorical instances of a key, their non-missing cells one after
\* another, and the different cells among them
CategoricalCells(key) ==
    LET of == TypedInstances(key, "categorical")
    IN Flatten([i \in DOMAIN of |-> ValuesOf(of[i])])

\* C26: under every Column Key the counts of the merged categorical aggregate
\* add up to the non-missing cells of the categorical instances of the key;
\* there are at most as many categories as different cells, each with a cell.
C26_CountsAddUp ==
    Done => \A key \in Keys :
      LET cells == CategoricalCells(key)
          categories == DictGet(analysis.charts_data.categorical, key, <<>>)
      IN /\ SumSeq([j \in DOMAIN categories |-> categories[j].v]) = Len(cells)
         /\ Len(categories) <= Cardinality({cells[i] : i \in DOMAIN cells})
         /\ \A j \in DOMAIN categories : categories[j].v >= 1
         /\ \A i \in DOMAIN cells :
               \E j \in DOMAIN categories : categories[j].k = str_strip(cells[i])

\* C26 witness: two sources of a key, and two different cells that trimming
\* joins into one category
C26_Witness ==
    /\ Done /\ Len(dataframes) >= 2
    /\ \E key \in Keys :
          LET cells == CategoricalCells(key)
              categories == DictGet(analysis.charts_data.categorical, key, <<>>)
          IN /\ Len(TypedInstances(key, "categorical")) >= 2
             /\ Len(categories) < Cardinality({cells[i] : i \in DOMAIN cells})
             /\ SumSeq([j \in DOMAIN categories |-> categories[j].v]) = Len(cells)

----------------------------------------------------------------------------
(* What the claims on the globals speak of *)

SomeUploadSucceeded == \E r \in DOMAIN requests : Succeeded(r)

ListedFiles(r) ==
    LET usable == SelectSeq(requests[r].files, Usable)
    IN [i \in DOMAIN usable |->
          [filename |-> usable[i].filename,
           sheets |-> [j \in DOMAIN read_sheets(usable[i]) |->
                         read_sheets(usable[i])[j].sheet_name]]]

FileNames(list) == [i \in DOMAIN list |-> list[i].filename]

\* C24 (as claimed): between requests, uploaded_files lists the files whose
\* analysis report_data holds, and is empty exactly when report_data is.
C24_ListMatchesReport ==
    Quiet =>
      /\ uploaded_files = <<>> <=> report_data = NoAnalysis
      /\ report_data # NoAnalysis =>
            FileNames(uploaded_files) = FileNames(report_data.data_overview)

\* C25 (as claimed): a request without a file that opens and has a sheet that
\* is read and holds a value never comes to assign report_data and is answered
\* 400, and the files of a successful answer are files of its own request.
C25_NoDataRefusedOwnFilesListed ==
    \A r \in DOMAIN requests :
       /\ (\A i \in DOMAIN requests[r].files : ~Usable(requests[r].files[i])) =>
             /\ requests[r].pc \in {"idle", "files", "failed"}
             /\ requests[r].pc = "failed" => requests[r].response.status = 400
       /\ Succeeded(r) =>
             \A i \in DOMAIN requests[r].response.files :
                \E j \in DOMAIN requests[r].files :
                   requests[r].files[j].filename = requests[r].response.files[i].filename

====
